---- MODULE Spec2Model ----
(***************************************************************************)
(* Model of the Renogy Rover monitor: the device client of                 *)
(* src/renogy-rover.js (class RenogyRover) and the polling orchestrator of *)
(* src/renogyapp.js, which holds two variants of the orchestrator: the     *)
(* callback variant (lines 1-284) and the async/await variant (lines       *)
(* 286-515).  The modbus transport (modbus-serial) is the environment.     *)
(***************************************************************************)
EXTENDS Integers, Sequences, FiniteSets, TLC

VARIABLES
    variant,        \* which orchestrator of renogyapp.js runs: "callback" or "async"
    phase,          \* position of monitorLoop
    client,         \* RenogyRover.client
    connectCalls,   \* number of renogy.connect invocations
    connectResult,  \* what connect reported to the orchestrator
    model,          \* the model value monitorLoop holds after getProductModel
    supported,      \* outcome of the model.indexOf("ML2420N") != -1 test
    timer,          \* setInterval(monitorPass, ...) has been armed
    ticks,          \* interval ticks fired so far
    cycles,         \* one record per getReadings invocation, in start order
    wire,           \* read-holding-registers requests the transport has not answered
    sink,           \* per cycle, the Composite Readings it handed to printReadings
    calls,          \* per read-operation call: transport requests, answers, callback deliveries
    input,          \* the device client's operation examined on its own, with its argument
    output          \* what that operation returned, delivered or threw

\* the state of the monitor
program == <<variant, phase, client, connectCalls, connectResult, model, supported,
             timer, ticks, cycles, wire, sink, calls>>

vars == <<program, input, output>>

----------------------------------------------------------------------------
(* Bounds of the model *)

\* number of interval ticks explored
MaxTicks == 1

MaxCycles == MaxTicks + 1

----------------------------------------------------------------------------
(* JavaScript values *)

Null == [type |-> "null"]

Undefined == [type |-> "undefined"]

Pending == [type |-> "pending"]

Error(name) == [type |-> "error", name |-> name]

String(chars) == [type |-> "string", chars |-> chars]

Boolean(b) == [type |-> "boolean", value |-> b]

Number(n) == [type |-> "number", value |-> n]

\* the error value the transport reports; the client and the orchestrator never
\* look into it, so one value stands for a timeout, a CRC fault, a closed port
TransportErrors == {Error("TransportError")}

\* thrown by Buffer.readInt16BE / readInt8 past the end of the buffer
RangeError == Error("RangeError")

\* thrown by null.indexOf / undefined.indexOf
TypeError == Error("TypeError")

\* JavaScript truthiness, as used by `if (panelState)`
Truthy(v) == v # Null /\ v # Undefined

----------------------------------------------------------------------------
(* Register map *)

ProductModelBase == 12

ProductModelLength == 16

PanelBase == 263

PanelLength == 3

BatteryBase == 256

BatteryLength == 4

HistoricalBase == 267

HistoricalLength == 10

DomainOps == {"panel", "battery", "historical"}

Ops == {"model"} \cup DomainOps

\* mutant of registerBase: the panel block is read at the battery block's address
registerBaseSwapped(op) ==
    CASE op = "model" -> ProductModelBase
      [] op = "panel" -> BatteryBase
      [] op = "battery" -> PanelBase
      [] op = "historical" -> HistoricalBase

registerBase(op) ==
    CASE op = "model" -> ProductModelBase
      [] op = "panel" -> PanelBase
      [] op = "battery" -> BatteryBase
      [] op = "historical" -> HistoricalBase

registerLength(op) ==
    CASE op = "model" -> ProductModelLength
      [] op = "panel" -> PanelLength
      [] op = "battery" -> BatteryLength
      [] op = "historical" -> HistoricalLength

----------------------------------------------------------------------------
(* Buffer decoding *)

\* Buffer.readInt16BE(offset): big-endian two's complement, throws past the end
readInt16BE(buf, offset) ==
    IF offset + 2 > Len(buf)
    THEN RangeError
    ELSE LET u == buf[offset + 1] * 256 + buf[offset + 2]
         IN  [type |-> "number", value |-> IF u >= 32768 THEN u - 65536 ELSE u]

\* Buffer.readInt8(offset): two's complement byte, throws past the end
readInt8(buf, offset) ==
    IF offset + 1 > Len(buf)
    THEN RangeError
    ELSE LET u == buf[offset + 1]
         IN  [type |-> "number", value |-> IF u >= 128 THEN u - 256 ELSE u]

\* Buffer.toString("ascii"): every byte with its top bit cleared
toStringAscii(buf) == String([i \in 1..Len(buf) |-> buf[i] % 128])

\* String.indexOf(needle): first 0-based position, or -1
indexOf(str, needle) ==
    LET h == str.chars
        hits == {i \in 0..(Len(h) - Len(needle)) :
                    \A j \in 1..Len(needle) : h[i + j] = needle[j]}
    IN  IF hits = {} THEN -1 ELSE CHOOSE i \in hits : \A k \in hits : i <= k

\* "ML2420N"
ML2420N == <<77, 76, 50, 52, 50, 48, 78>>

Thrown(e) == [type |-> "thrown", exception |-> e]

IsThrown(v) == v \in {Thrown(RangeError), Thrown(TypeError)}

\* getPanelState's decode, lines 155-157
decodePanel(buf) ==
    LET v == readInt16BE(buf, 0)
        c == readInt16BE(buf, 2)
        p == readInt16BE(buf, 4)
    IN  IF RangeError \in {v, c, p}
        THEN Thrown(RangeError)
        ELSE [voltage |-> v.value, current |-> c.value, chargingPower |-> p.value]

\* mutant of decodeBattery: the two temperature bytes are taken the other way round
decodeBatterySwappedBytes(buf) ==
    LET s == readInt16BE(buf, 0)
        v == readInt16BE(buf, 2)
        c == readInt16BE(buf, 4)
        ct == readInt8(buf, 7)
        bt == readInt8(buf, 6)
    IN  IF RangeError \in {s, v, c, ct, bt}
        THEN Thrown(RangeError)
        ELSE [stateOfCharge |-> s.value, voltage |-> v.value,
              chargingCurrent |-> c.value,
              controllerTemperature |-> ct.value,
              batteryTemperature |-> bt.value]

\* getBatteryState's decode, lines 197-201
decodeBattery(buf) ==
    LET s == readInt16BE(buf, 0)
        v == readInt16BE(buf, 2)
        c == readInt16BE(buf, 4)
        ct == readInt8(buf, 6)
        bt == readInt8(buf, 7)
    IN  IF RangeError \in {s, v, c, ct, bt}
        THEN Thrown(RangeError)
        ELSE [stateOfCharge |-> s.value, voltage |-> v.value,
              chargingCurrent |-> c.value,
              controllerTemperature |-> ct.value,
              batteryTemperature |-> bt.value]

\* mutant of decodeHistorical: the registers 0x0113 and 0x0114 are taken the other
\* way round
decodeHistoricalSwappedWords(buf) ==
    LET w == [i \in 0..9 |-> readInt16BE(buf, 2 * i)]
    IN  IF \E i \in 0..9 : w[i] = RangeError
        THEN Thrown(RangeError)
        ELSE [batteryVoltageMinForDay |-> w[0].value,
              batteryVoltageMaxForDay |-> w[1].value,
              maxChargeCurrentForDay |-> w[2].value,
              maxDischargeCurrentForDay |-> w[3].value,
              maxChargePowerForDay |-> w[4].value,
              maxDischargePowerForDay |-> w[5].value,
              maxChargeAmpHoursForDay |-> 0,
              maxDischargeAmpHoursForDay |-> 0,
              chargeingAmpHoursForDay |-> w[6].value,
              dischargingAmpHoursForDay |-> w[7].value,
              powerGenerationForDay |-> w[9].value,
              powerConsumptionForDay |-> w[8].value]

\* getHistoricalParameters' decode, lines 212-264: nine fields are initialised to 0,
\* ten are assigned from the registers
decodeHistorical(buf) ==
    LET w == [i \in 0..9 |-> readInt16BE(buf, 2 * i)]
    IN  IF \E i \in 0..9 : w[i] = RangeError
        THEN Thrown(RangeError)
        ELSE [batteryVoltageMinForDay |-> w[0].value,
              batteryVoltageMaxForDay |-> w[1].value,
              maxChargeCurrentForDay |-> w[2].value,
              maxDischargeCurrentForDay |-> w[3].value,
              maxChargePowerForDay |-> w[4].value,
              maxDischargePowerForDay |-> w[5].value,
              maxChargeAmpHoursForDay |-> 0,
              maxDischargeAmpHoursForDay |-> 0,
              chargeingAmpHoursForDay |-> w[6].value,
              dischargingAmpHoursForDay |-> w[7].value,
              powerGenerationForDay |-> w[8].value,
              powerConsumptionForDay |-> w[9].value]

\* what a read operation makes of a successfully transported buffer
decode(op, buf) ==
    CASE op = "model" -> toStringAscii(buf)
      [] op = "panel" -> decodePanel(buf)
      [] op = "battery" -> decodeBattery(buf)
      [] op = "historical" -> decodeHistorical(buf)

----------------------------------------------------------------------------
(* The transport (modbus-serial), the environment of the device client *)

Spaces(n) == [i \in 1..n |-> 32]

\* "ML4430"
ML4430 == <<77, 76, 52, 52, 51, 48>>

\* a well-formed block of 2 * registerLength(op) bytes, as the device sends it
FullBuffers(op) ==
    CASE op = "model" ->
            {Spaces(25) \o ML2420N, ML2420N \o Spaces(25), Spaces(26) \o ML4430}
      [] op = "panel" -> {<<0, 180, 0, 25, 255, 255>>}
      [] op = "battery" -> {<<0, 50, 0, 100, 0, 10, 25, 15>>}
      [] op = "historical" ->
            {<<0, 120, 0, 144, 1, 44, 0, 0, 0, 96, 0, 0, 0, 7, 255, 255, 0, 33, 0, 2>>}

\* blocks cut short, lengths 0 to 2 * registerLength(op) - 1: an empty panel
\* block, a battery block without its last byte, a historical block without its
\* last register; a short model block decodes like a full one
ShortBuffers(op) ==
    CASE op = "model" -> {}
      [] op = "panel" -> {<<>>}
      [] op = "battery" -> {<<0, 50, 0, 100, 0, 10, 25>>}
      [] op = "historical" ->
            {<<0, 120, 0, 144, 1, 44, 0, 0, 0, 96, 0, 0, 0, 7, 255, 255, 0, 33>>}

Failure(e) == [err |-> e, data |-> Null]

Success(buf) == [err |-> Null, data |-> [buffer |-> buf]]

\* what the transport may pass to the callback of one readHoldingRegisters
\* request: during the call it can only report a failure (the port is not
\* open), later a failure or the bytes of a response
Answers(r) ==
    {Failure(e) : e \in TransportErrors}
        \cup (IF r.sync
              THEN {}
              ELSE {Success(b) : b \in FullBuffers(r.op) \cup ShortBuffers(r.op)})

IsShort(op, ans) == ans.err = Null /\ Len(ans.data.buffer) < 2 * registerLength(op)

\* the transport invokes the callback during the call (sync) or later; a promise
\* settles later in either case
Modes == IF variant = "callback" THEN BOOLEAN ELSE {FALSE}

\* an exception that reaches the event loop ends the process, unless the
\* embedding swallows it
Fates(escapes) == IF escapes THEN {"exit", "swallowed"} ELSE {"none"}

\* what connect reports
ConnectErrors == {Error("ENOENT")}

----------------------------------------------------------------------------
(* Device client, src/renogy-rover.js *)

\* `x != null` of JavaScript: false for null and for undefined
NotNull(v) == v # Null /\ v # Undefined

DefaultBaudrate == 9600

DefaultModbusID == 1

DefaultModbusTimeout == 1000

\* defaultConfig, lines 3-9
defaultConfig ==
    [trace |-> Boolean(FALSE),
     traceError |-> Boolean(FALSE),
     baudrate |-> Number(DefaultBaudrate),
     modbusID |-> Number(DefaultModbusID),
     modbusTimeout |-> Number(DefaultModbusTimeout)]

\* config.<key>: undefined for a property the object does not have
get(config, key) == IF key \in DOMAIN config THEN config[key] ELSE Undefined

\* { ...defaultConfig, ...config }, lines 13-16
spread(defaults, config) ==
    [key \in DOMAIN defaults \cup DOMAIN config |->
        IF key \in DOMAIN config THEN config[key] ELSE defaults[key]]

\* the string the constructor throws, line 20
ConfigError == [type |-> "message", text |-> "serial port is required"]

\* new RenogyRover(config), lines 12-32: the object, or what the constructor throws;
\* config.trace of an undefined config is a TypeError
constructor(config) ==
    IF config = Undefined
    THEN Thrown(TypeError)
    ELSE LET merged == spread(defaultConfig, config)
         IN  IF get(config, "trace") = Undefined \/ ~NotNull(get(config, "port"))
             THEN Thrown(ConfigError)
             ELSE [type |-> "RenogyRover",
                   port |-> merged["port"],
                   trace |-> merged["trace"],
                   traceError |-> merged["traceError"],
                   baudrate |-> merged["baudrate"],
                   modbusID |-> merged["modbusID"],
                   modbusTimeout |-> merged["modbusTimeout"],
                   client |-> Null]

\* connect, lines 39-62: the object with its new ModbusRTU client, configured by
\* setTimeout, setID and connectRTUBuffered(port, { baudRate })
connect(rover) ==
    [rover EXCEPT !.client = [type |-> "ModbusRTU",
                              timeout |-> rover.modbusTimeout,
                              id |-> rover.modbusID,
                              port |-> rover.port,
                              baudRate |-> rover.baudrate]]

\* the callback readHoldingRegisters hands to the transport, lines 286-302
readHoldingRegistersCallback(err, data) == [err |-> err, data |-> data]

Delivery(err, result, cause) == [err |-> err, result |-> result, cause |-> cause]

\* mutant of handler: the transport's error is replaced by an error of the client's own
handlerWrapsError(op, err, data) ==
    IF NotNull(err)
    THEN [err |-> Error("read failed"), result |-> Null]
    ELSE LET d == decode(op, data.buffer)
         IN  IF IsThrown(d) THEN d ELSE [err |-> Null, result |-> d]

\* the (err, data) handler of getProductModel / getPanelState / getBatteryState /
\* getHistoricalParameters: what it passes to the caller's callback, or what it throws
handler(op, err, data) ==
    IF NotNull(err)
    THEN [err |-> err, result |-> Null]
    ELSE LET d == decode(op, data.buffer)
         IN  IF IsThrown(d) THEN d ELSE [err |-> Null, result |-> d]

\* mutant of readHoldingRegisters: the transport is called outside a try block
readHoldingRegistersUnguarded(rover, op) ==
    IF rover.client = Null
    THEN [requests |-> <<>>, deliveries |-> <<>>, thrown |-> TypeError]
    ELSE [requests |-> <<[base |-> registerBase(op), length |-> registerLength(op)]>>,
          deliveries |-> <<>>,
          thrown |-> Null]

\* a read operation up to the return of readHoldingRegisters, lines 274-310: with
\* a transport client the request is handed to it; this.client.readHoldingRegisters
\* on a null client throws TypeError inside the try block, and catch passes
\* (e, null) to the operation's handler
readHoldingRegisters(rover, op) ==
    IF rover.client = Null
    THEN LET h == handler(op, TypeError, Null)
         IN  [requests |-> <<>>,
              deliveries |-> <<Delivery(h.err, h.result, "catch")>>,
              thrown |-> Null]
    ELSE [requests |-> <<[base |-> registerBase(op), length |-> registerLength(op)]>>,
          deliveries |-> <<>>,
          thrown |-> Null]

\* one read operation on one transport answer: the deliveries to the caller's
\* callback, and the exception that leaves readHoldingRegisters (Null if none)
operation(op, ans, sync) ==
    LET passed == readHoldingRegistersCallback(ans.err, ans.data)
        h == handler(op, passed.err, passed.data)
    IN  IF ~IsThrown(h)
        THEN [deliveries |-> <<Delivery(h.err, h.result, "transport")>>, thrown |-> Null]
        ELSE IF sync
        THEN \* the callback ran inside the try block: catch calls callback(e, null)
             LET h2 == handler(op, h.exception, Null)
             IN  [deliveries |-> <<Delivery(h2.err, h2.result, "catch")>>, thrown |-> Null]
        ELSE [deliveries |-> <<>>, thrown |-> h.exception]

\* the promise-returning client of ./index.js that the async orchestrator uses
promiseOutcome(op, ans) ==
    IF NotNull(ans.err)
    THEN [type |-> "rejected", reason |-> ans.err]
    ELSE LET d == decode(op, ans.data.buffer)
         IN  IF IsThrown(d)
             THEN [type |-> "rejected", reason |-> d.exception]
             ELSE [type |-> "resolved", value |-> d]

promiseDelivery(outcome) ==
    IF outcome.type = "rejected"
    THEN Delivery(outcome.reason, Null, "transport")
    ELSE Delivery(Null, outcome.value, "transport")

----------------------------------------------------------------------------
(* Polling orchestrator, src/renogyapp.js *)

\* getReadings' fresh Composite Reading, lines 94-105 and 370-381
newReadings(now) ==
    [date |-> now,
     panel |-> Null, panelError |-> Null,
     battery |-> Null, batteryError |-> Null,
     historical |-> Null, historicalError |-> Null]

\* readings.<op> = value
setSlot(readings, op, value) ==
    CASE op = "panel" -> [readings EXCEPT !.panel = value]
      [] op = "battery" -> [readings EXCEPT !.battery = value]
      [] op = "historical" -> [readings EXCEPT !.historical = value]

\* readings.<op>Error = value
setErrorSlot(readings, op, value) ==
    CASE op = "panel" -> [readings EXCEPT !.panelError = value]
      [] op = "battery" -> [readings EXCEPT !.batteryError = value]
      [] op = "historical" -> [readings EXCEPT !.historicalError = value]

slotOf(readings, op) ==
    CASE op = "panel" -> readings.panel
      [] op = "battery" -> readings.battery
      [] op = "historical" -> readings.historical

errorSlotOf(readings, op) ==
    CASE op = "panel" -> readings.panelError
      [] op = "battery" -> readings.batteryError
      [] op = "historical" -> readings.historicalError

\* mutant of slotUpdate: every callback records its error in the panel's error slot
slotUpdateWrongSlot(readings, op, err, result) ==
    IF NotNull(err)
    THEN setErrorSlot(readings, "panel", err)
    ELSE setSlot(readings, op, result)

\* the (err, state) callbacks of getReadings, callback variant, lines 110-135
slotUpdate(readings, op, err, result) ==
    IF NotNull(err)
    THEN setErrorSlot(readings, op, err)
    ELSE setSlot(readings, op, result)

\* `const x = await renogy.getX().catch((err) => (readings.xError = err));
\*  if (x) readings.x = x;` of the async variant, lines 386-403
awaitSlotUpdate(readings, op, outcome) ==
    LET caught == IF outcome.type = "rejected"
                  THEN setErrorSlot(readings, op, outcome.reason)
                  ELSE readings
        awaited == IF outcome.type = "rejected" THEN outcome.reason ELSE outcome.value
    IN  IF Truthy(awaited) THEN setSlot(caught, op, awaited) ELSE caught

\* mutant of readsAtStart: the battery read is issued beside the panel read, not
\* from the panel read's callback
readsAtStartParallel == {"panel", "battery"}

\* the reads getReadings issues before any callback has run
readsAtStart == {"panel"}

\* mutant of nextOp: the Composite Reading is handed over from the battery
\* read's callback
nextOpEmitEarly(op) ==
    CASE op = "panel" -> "battery"
      [] op = "battery" -> "emit"
      [] op = "historical" -> "emit"

\* what getReadings does once the read `op` has reported to it
nextOp(op) ==
    CASE op = "panel" -> "battery"
      [] op = "battery" -> "historical"
      [] op = "historical" -> "emit"

\* mutant of connectFailed: the connect result is not looked at
connectFailedIgnored(result) == FALSE

\* `if (result != null) { ...; return; }` of monitorLoop, lines 33-36 and 319-322
connectFailed(result) == NotNull(result)

\* mutant of modelTest: the model string has to start with "ML2420N"
modelTestPrefix(m) ==
    IF m \in {Null, Undefined}
    THEN Thrown(TypeError)
    ELSE [type |-> "tested", supported |-> indexOf(m, ML2420N) = 0]

\* monitorLoop's use of the model, lines 48-52 and 333-337: model.indexOf throws
\* on null and undefined
modelTest(m) ==
    IF m \in {Null, Undefined}
    THEN Thrown(TypeError)
    ELSE [type |-> "tested", supported |-> indexOf(m, ML2420N) # -1]

----------------------------------------------------------------------------
(* State machine *)

CallIds == {<<0, "model">>} \cup {<<c, op>> : c \in 1..MaxCycles, op \in DomainOps}

Request(c, op, sync) ==
    [cycle |-> c, op |-> op, base |-> registerBase(op), length |-> registerLength(op),
     sync |-> sync]

\* history of one more transport request for call `id`
Issued(h, id) == [h EXCEPT ![id].requests = @ + 1]

\* history of one transport answer and the deliveries it caused
Answered(h, id, ans, ds) ==
    [h EXCEPT ![id].answers = Append(@, ans), ![id].deliveries = @ \o ds]

\* a callback invoked during the call runs before anything else does
Turn(r) == r \in wire /\ \A q \in wire : q.sync => q = r

Quiet == \A q \in wire : ~q.sync

Init ==
    /\ variant \in {"callback", "async"}
    /\ phase = "start"
    /\ client = Null
    /\ connectCalls = 0
    /\ connectResult = Pending
    /\ model = Pending
    /\ supported = FALSE
    /\ timer = FALSE
    /\ ticks = 0
    /\ cycles = <<>>
    /\ wire = {}
    /\ sink = [c \in 1..MaxCycles |-> <<>>]
    /\ calls = [id \in CallIds |-> [requests |-> 0, answers |-> <<>>, deliveries |-> <<>>]]
    /\ input = Null
    /\ output = Pending

\* mutant of Connect: monitorLoop connects again after a connect error
ConnectRetrying ==
    /\ phase \in {"start", "fatal"}
    /\ connectCalls < 2
    /\ phase' = "connecting"
    /\ client' = "ModbusRTU"
    /\ connectCalls' = connectCalls + 1
    /\ UNCHANGED <<input, output, variant, connectResult, model, supported, timer,
                   ticks, cycles, wire, sink, calls>>

\* monitorLoop up to renogy.connect(...): the client is created, the port is opening
Connect ==
    /\ phase = "start"
    /\ phase' = "connecting"
    /\ client' = "ModbusRTU"
    /\ connectCalls' = connectCalls + 1
    /\ UNCHANGED <<input, output, variant, connectResult, model, supported, timer, ticks, cycles,
                   wire, sink, calls>>

\* connect reports: an error ends monitorLoop, success calls getProductModel
ConnectDone(result) ==
    /\ phase = "connecting"
    /\ connectResult' = result
    /\ IF connectFailed(result)
       THEN /\ phase' = "fatal"
            /\ UNCHANGED <<wire, calls>>
       ELSE /\ phase' = "identifying"
            /\ \E sync \in Modes : wire' = wire \cup {Request(0, "model", sync)}
            /\ calls' = Issued(calls, <<0, "model">>)
    /\ UNCHANGED <<input, output, variant, client, connectCalls, model, supported, timer, ticks,
                   cycles, sink>>

\* getReadings is entered for cycle number Len(cycles) + 1
StartCycle(h, w) ==
    LET c == Len(cycles) + 1
    IN  /\ cycles' = Append(cycles, [pc |-> "panel", readings |-> newReadings(ticks')])
        /\ \E sync \in Modes :
              wire' = w \cup {Request(c, op, sync) : op \in readsAtStart}
        /\ calls' = Issued(h, <<c, "panel">>)

\* an exception reached the event loop
Escaped(fate) ==
    /\ phase' = IF fate = "exit" THEN "crashed" ELSE "stalled"
    /\ timer' = FALSE

\* the transport answers getProductModel, callback variant (lines 40-64)
IdentifyCallback(r, ans) ==
    /\ variant = "callback"
    /\ phase = "identifying"
    /\ Turn(r)
    /\ r.op = "model"
    /\ LET o == operation("model", ans, r.sync)
           d == o.deliveries[1]
           t == modelTest(d.result)
           \* a throw inside a synchronous callback is caught by readHoldingRegisters,
           \* which calls back once more with (e, null); that call throws again
           again == IF IsThrown(t) /\ r.sync
                    THEN <<Delivery(t.exception, Null, "catch")>>
                    ELSE <<>>
           h == Answered(calls, <<0, "model">>, ans, o.deliveries \o again)
       IN  /\ model' = d.result
           /\ ticks' = ticks
           /\ IF IsThrown(t)
              THEN /\ \E fate \in Fates(TRUE) : Escaped(fate)
                   /\ wire' = wire \ {r}
                   /\ calls' = h
                   /\ UNCHANGED <<supported, cycles>>
              ELSE /\ supported' = t.supported
                   /\ phase' = "polling"
                   /\ StartCycle(h, wire \ {r})
                   /\ timer' = TRUE
    /\ UNCHANGED <<input, output, variant, client, connectCalls, connectResult, sink>>

\* the getProductModel promise settles, async variant (lines 326-347)
IdentifyAsync(r, ans) ==
    /\ variant = "async"
    /\ phase = "identifying"
    /\ Turn(r)
    /\ r.op = "model"
    /\ LET outcome == promiseOutcome("model", ans)
           \* .catch((err) => { console.log(...) }) yields undefined
           m == IF outcome.type = "rejected" THEN Undefined ELSE outcome.value
           t == modelTest(m)
           h == Answered(calls, <<0, "model">>, ans, <<promiseDelivery(outcome)>>)
       IN  /\ model' = m
           /\ ticks' = ticks
           /\ IF IsThrown(t)
              THEN /\ \E fate \in Fates(TRUE) : Escaped(fate)
                   /\ wire' = wire \ {r}
                   /\ calls' = h
                   /\ UNCHANGED <<supported, cycles>>
              ELSE /\ supported' = t.supported
                   /\ phase' = "polling"
                   /\ StartCycle(h, wire \ {r})
                   /\ timer' = FALSE
    /\ UNCHANGED <<input, output, variant, client, connectCalls, connectResult, sink>>

\* setInterval fires: monitorPass calls getReadings (lines 73-74 and 355-356)
Tick ==
    /\ phase = "polling"
    /\ timer
    /\ Quiet
    /\ ticks < MaxTicks
    /\ ticks' = ticks + 1
    /\ StartCycle(calls, wire)
    /\ UNCHANGED <<input, output, variant, phase, client, connectCalls, connectResult, model,
                   supported, timer, sink>>

\* mutant of readingsOf: getReadings keeps its readings in one object shared by
\* all its invocations
readingsOfShared(c) == cycles[1].readings

\* the `readings` object that the callbacks of getReadings' invocation c close
\* over, lines 94 and 370
readingsOf(c) == cycles[c].readings

\* getReadings goes on after the read r.op of its cycle has reported
Proceed(r, readings, h) ==
    LET c == r.cycle
        n == nextOp(r.op)
    IN  IF n = "emit"
        THEN /\ cycles' = [cycles EXCEPT ![c] = [pc |-> "done", readings |-> readings]]
             /\ sink' = [sink EXCEPT ![c] = Append(@, readings)]
             /\ wire' = wire \ {r}
             /\ calls' = h
        ELSE /\ cycles' = [cycles EXCEPT ![c] = [pc |-> n, readings |-> readings]]
             /\ \E sync \in Modes : wire' = (wire \ {r}) \cup {Request(c, n, sync)}
             /\ calls' = Issued(h, <<c, n>>)
             /\ sink' = sink

\* the transport answers a panel, battery or historical read, callback variant
ReadCallback(r, ans) ==
    /\ variant = "callback"
    /\ phase = "polling"
    /\ Turn(r)
    /\ r.op \in DomainOps
    /\ LET c == r.cycle
           o == operation(r.op, ans, r.sync)
           h == Answered(calls, <<c, r.op>>, ans, o.deliveries)
       IN  IF o.deliveries = <<>>
           THEN \* the decode threw inside the transport's callback
                /\ cycles' = [cycles EXCEPT ![c].pc = "aborted"]
                /\ calls' = h
                /\ sink' = sink
                /\ \E fate \in Fates(TRUE) :
                      IF fate = "exit"
                      THEN Escaped(fate) /\ wire' = {}
                      ELSE wire' = wire \ {r} /\ UNCHANGED <<phase, timer>>
           ELSE LET d == o.deliveries[1]
                IN  /\ Proceed(r, slotUpdate(readingsOf(c), r.op, d.err, d.result), h)
                    /\ UNCHANGED <<phase, timer>>
    /\ UNCHANGED <<input, output, variant, client, connectCalls, connectResult, model, supported, ticks>>

\* a panel, battery or historical promise settles, async variant
ReadAsync(r, ans) ==
    /\ variant = "async"
    /\ phase = "polling"
    /\ Turn(r)
    /\ r.op \in DomainOps
    /\ LET c == r.cycle
           outcome == promiseOutcome(r.op, ans)
           h == Answered(calls, <<c, r.op>>, ans, <<promiseDelivery(outcome)>>)
       IN  /\ Proceed(r, awaitSlotUpdate(readingsOf(c), r.op, outcome), h)
           \* monitorLoop awaits the first getReadings, then calls setInterval
           /\ timer' = (timer \/ (c = 1 /\ nextOp(r.op) = "emit"))
    /\ UNCHANGED <<input, output, variant, phase, client, connectCalls, connectResult, model,
                   supported, ticks>>

Next ==
    \/ Connect
    \/ \E result \in {Null} \cup ConnectErrors : ConnectDone(result)
    \/ \E r \in wire : \E ans \in Answers(r) : IdentifyCallback(r, ans)
    \/ \E r \in wire : \E ans \in Answers(r) : IdentifyAsync(r, ans)
    \/ Tick
    \/ \E r \in wire : \E ans \in Answers(r) : ReadCallback(r, ans)
    \/ \E r \in wire : \E ans \in Answers(r) : ReadAsync(r, ans)

Spec == Init /\ [][Next]_vars

----------------------------------------------------------------------------
(* The device client's operations on their own: each is applied once to an   *)
(* argument drawn from a bounded set.                                        *)

\* register words the device may send: 50, 100, 10, -1, -32768
Words == {<<0, 50>>, <<0, 100>>, <<0, 10>>, <<255, 255>>, <<128, 0>>}

\* temperature bytes: 0, 15, 25, 127 with bit 7 clear; 0x80, 0x85, 0xFF with bit 7 set
TempBytes == {0, 15, 25, 127, 128, 133, 255}

\* 8-byte blocks of the battery registers 0x0100..0x0103
BatteryBlocks ==
    {w1 \o w2 \o w3 \o <<ct, bt>> :
        w1 \in Words, w2 \in Words, w3 \in Words, ct \in TempBytes, bt \in TempBytes}

\* words of the historical registers: 2 and -1
HistoricalWords == {<<0, 2>>, <<255, 255>>}

\* the concatenation of a sequence of words
RECURSIVE Flatten(_)
Flatten(ws) == IF ws = <<>> THEN <<>> ELSE Head(ws) \o Flatten(Tail(ws))

\* 20-byte blocks of the historical registers 0x010B..0x0114
HistoricalBlocks ==
    {Flatten(ws) : ws \in [1..HistoricalLength -> HistoricalWords]} \cup FullBuffers("historical")

\* a serial port identifier
Port == String(<<47, 100, 101, 118>>)

\* the properties a configuration object has, and their values
makeConfig(port, trace, traceError, baudrate, modbusID, modbusTimeout) ==
    LET given == [port |-> port, trace |-> trace, traceError |-> traceError,
                  baudrate |-> baudrate, modbusID |-> modbusID,
                  modbusTimeout |-> modbusTimeout]
    IN  [key \in {k \in DOMAIN given : given[k] # Pending} |-> given[key]]

\* configuration objects a caller may pass; Pending stands for a property left out
Configs ==
    {makeConfig(port, trace, traceError, baudrate, modbusID, modbusTimeout) :
        port \in {Pending, Null, Port},
        trace \in {Pending, Boolean(FALSE), Boolean(TRUE)},
        traceError \in {Pending, Boolean(TRUE)},
        baudrate \in {Pending, Number(19200)},
        modbusID \in {Pending, Number(2)},
        modbusTimeout \in {Pending, Number(500)}}
        \cup {Undefined}

\* device clients as the constructor leaves them, and as connect leaves them
Rovers ==
    LET built == {constructor(c) : c \in Configs}
        fresh == {rover \in built : rover.type = "RenogyRover"}
    IN  fresh \cup {connect(rover) : rover \in fresh}

UnitInputs ==
    {[op |-> "constructor", arg |-> c] : c \in Configs}
        \cup {[op |-> "battery", arg |-> b] : b \in BatteryBlocks}
        \cup {[op |-> "historical", arg |-> b] : b \in HistoricalBlocks}
        \cup {[op |-> "connect", arg |-> c] : c \in Configs}
        \cup {[op |-> "read", arg |-> [rover |-> rover, op |-> op]] :
                  rover \in Rovers, op \in Ops}

UnitInit ==
    /\ variant = "callback"
    /\ phase = "start"
    /\ client = Null
    /\ connectCalls = 0
    /\ connectResult = Pending
    /\ model = Pending
    /\ supported = FALSE
    /\ timer = FALSE
    /\ ticks = 0
    /\ cycles = <<>>
    /\ wire = {}
    /\ sink = [c \in 1..MaxCycles |-> <<>>]
    /\ calls = [id \in CallIds |-> [requests |-> 0, answers |-> <<>>, deliveries |-> <<>>]]
    /\ input \in UnitInputs
    /\ output = Pending

\* new RenogyRover(config)
Construct ==
    /\ input.op = "constructor"
    /\ output = Pending
    /\ output' = constructor(input.arg)
    /\ UNCHANGED <<program, input>>

\* getBatteryState on a response of the transport that carries the block
GetBatteryState ==
    /\ input.op = "battery"
    /\ output = Pending
    /\ output' = operation("battery", Success(input.arg), FALSE)
    /\ UNCHANGED <<program, input>>

\* getHistoricalParameters on a response of the transport that carries the block
GetHistoricalParameters ==
    /\ input.op = "historical"
    /\ output = Pending
    /\ output' = operation("historical", Success(input.arg), FALSE)
    /\ UNCHANGED <<program, input>>

\* new RenogyRover(config) followed by connect on the object
ConstructAndConnect ==
    /\ input.op = "connect"
    /\ output = Pending
    /\ output' = (LET rover == constructor(input.arg)
                  IN  IF rover.type = "thrown" THEN rover ELSE connect(rover))
    /\ UNCHANGED <<program, input>>

\* getProductModel, getPanelState, getBatteryState or getHistoricalParameters is
\* invoked on a device client, up to the return of the call
InvokeRead ==
    /\ input.op = "read"
    /\ output = Pending
    /\ output' = readHoldingRegisters(input.arg.rover, input.arg.op)
    /\ UNCHANGED <<program, input>>

UnitNext ==
    \/ Construct
    \/ ConstructAndConnect
    \/ InvokeRead
    \/ GetBatteryState
    \/ GetHistoricalParameters

UnitSpec == UnitInit /\ [][UnitNext]_vars

----------------------------------------------------------------------------
(* Properties *)

CycleIds == 1..Len(cycles)

\* the Composite Readings handed to the sink, each with its cycle
Emitted ==
    UNION {{[cycle |-> c, readings |-> sink[c][k]] : k \in 1..Len(sink[c])} : c \in CycleIds}

\* the number of Composite Readings cycle c handed to the sink
EmittedBy(c) == Len(sink[c])

\* the transport's answer to the call `id` (the call has been answered)
AnswerOf(id) == calls[id].answers[1]

HasAnswer(id) == calls[id].answers # <<>>

FailedBy(id) == HasAnswer(id) /\ NotNull(AnswerOf(id).err)

ShortAnswer(id) == HasAnswer(id) /\ IsShort(id[2], AnswerOf(id))

FullAnswer(id) == HasAnswer(id) /\ AnswerOf(id).err = Null /\ ~IsShort(id[2], AnswerOf(id))

\* C1: in every Composite Reading handed to the sink, each of the three slots
\* has exactly one of its struct and its error non-null.
C1_ExactlyOneOfStructAndError ==
    \A e \in Emitted : \A op \in DomainOps :
        (slotOf(e.readings, op) # Null) <=> (errorSlotOf(e.readings, op) = Null)

\* C2: when exactly one of the three reads of a cycle fails with a transport
\* error and the other two succeed, the cycle's Composite Reading holds that
\* error in the failed read's error slot and the decoded structs in the other
\* two slots, whose error slots are null.
C2_FailureIsolation ==
    \A e \in Emitted :
        LET c == e.cycle
            rd == e.readings
            failed == {op \in DomainOps : FailedBy(<<c, op>>)}
            ok == {op \in DomainOps : FullAnswer(<<c, op>>)}
        IN  (Cardinality(failed) = 1 /\ Cardinality(ok) = 2) =>
                /\ \A op \in failed : errorSlotOf(rd, op) = AnswerOf(<<c, op>>).err
                /\ \A op \in ok :
                      /\ slotOf(rd, op) = decode(op, AnswerOf(<<c, op>>).data.buffer)
                      /\ errorSlotOf(rd, op) = Null

\* C2 witness: a Composite Reading was emitted whose battery read failed while
\* the panel and historical reads succeeded.
C2_Witness ==
    \E e \in Emitted :
        /\ FailedBy(<<e.cycle, "battery">>)
        /\ FullAnswer(<<e.cycle, "panel">>)
        /\ FullAnswer(<<e.cycle, "historical">>)
        /\ e.readings.batteryError \in TransportErrors

\* C3: in every cycle the panel read is issued at the start, the battery read
\* is issued exactly when the transport has answered the panel read and the
\* historical read exactly when it has answered the battery read, whatever the
\* answers were; no read is issued twice.
C3_AllThreeReadsInOrder ==
    \A c \in CycleIds :
        /\ calls[<<c, "panel">>].requests = 1
        /\ calls[<<c, "battery">>].requests =
              (IF HasAnswer(<<c, "panel">>) THEN 1 ELSE 0)
        /\ calls[<<c, "historical">>].requests =
              (IF HasAnswer(<<c, "battery">>) THEN 1 ELSE 0)

\* C4: every started cycle that is not waiting for a transport answer has
\* handed exactly one Composite Reading to the sink (so that, the transport
\* answering every request, every cycle eventually hands over exactly one).
C4_EveryCycleEmitsOnce ==
    \A c \in CycleIds :
        (~\E r \in wire : r.cycle = c) =>
            EmittedBy(c) = 1

\* C5: once getProductModel has reported an error the orchestrator is
\* polling: the first cycle has been started.
C5_IdentificationErrorNotFatal ==
    FailedBy(<<0, "model">>) => (phase = "polling" /\ Len(cycles) >= 1)

\* C6: after connect has reported an error the orchestrator has stopped: no
\* read operation was called, no request is on the wire, no cycle was started,
\* the timer is not armed and connect was called once.
C6_ConnectErrorFatal ==
    connectResult \in ConnectErrors =>
        /\ phase = "fatal"
        /\ \A id \in CallIds : calls[id].requests = 0 /\ calls[id].deliveries = <<>>
        /\ wire = {}
        /\ cycles = <<>>
        /\ ~timer
        /\ connectCalls = 1

\* C6 witness: connect has reported an error.
C6_Witness == connectResult \in ConnectErrors /\ phase = "fatal"

\* C7 (as claimed): at most one request is outstanding at any moment.
C7_AtMostOneOutstanding == Cardinality(wire) <= 1

\* C7 (amended): the requests outstanding together belong to different
\* cycles, the identification request is never outstanding beside another,
\* and there are never more of them than cycles started.
C7_AtMostOnePerCycle ==
    /\ \A r, q \in wire : r.cycle = q.cycle => r = q
    /\ \A r \in wire : r.cycle = 0 => wire = {r}
    /\ Cardinality(wire) <= Len(cycles) + (IF phase = "identifying" THEN 1 ELSE 0)

\* C7 witness: a timer-started cycle has a request outstanding while the
\* first cycle's request is still unanswered.
C7_Witness ==
    \E r, q \in wire : r.cycle = 1 /\ q.cycle = 2 /\ ticks = 1

\* C8: once identification has completed, the cycles started number one more
\* than the ticks fired, and when every started cycle has completed as many
\* Composite Readings have been produced.
C8_CyclesAreTicksPlusOne ==
    calls[<<0, "model">>].deliveries # <<>> =>
        /\ Len(cycles) = ticks + 1
        /\ (\A c \in CycleIds : cycles[c].pc = "done") =>
              Cardinality({c \in CycleIds : EmittedBy(c) = 1}) = ticks + 1

\* C9: a panel, battery or historical read that the transport answered with
\* success and a short buffer has delivered an error and a null result to its
\* caller's callback.
C9_ShortBufferIsDecodeError ==
    \A c \in CycleIds : \A op \in DomainOps :
        ShortAnswer(<<c, op>>) =>
            /\ calls[<<c, op>>].deliveries # <<>>
            /\ \A k \in 1..Len(calls[<<c, op>>].deliveries) :
                  /\ NotNull(calls[<<c, op>>].deliveries[k].err)
                  /\ calls[<<c, op>>].deliveries[k].result = Null

\* C10: a read operation whose transport request failed has issued one
\* request, and what it delivered on that failure is the transport's error
\* value with a null result.
C10_TransportErrorUntouchedNoRetry ==
    \A id \in CallIds :
        FailedBy(id) =>
            /\ calls[id].requests = 1
            /\ Len(calls[id].answers) = 1
            /\ calls[id].deliveries # <<>>
            /\ calls[id].deliveries[1] = Delivery(AnswerOf(id).err, Null, "transport")

\* C10 witness: all four read operations have had a request failed by the
\* transport, the three domain reads in one cycle.
C10_Witness ==
    \E c \in CycleIds : \A op \in DomainOps : FailedBy(<<c, op>>)

\* C11: every transport request carries the fixed (base address, word count) of
\* the read operation that issued it: getProductModel (0x000C, 16), getPanelState
\* (0x0107, 3), getBatteryState (0x0100, 4), getHistoricalParameters (0x010B, 10);
\* a call of a read operation issues one request, never a second one, and a call
\* that was answered or has reported to its caller has issued exactly one.
C11_FixedAddressAndCount ==
    /\ \A r \in wire :
          <<r.op, r.base, r.length>> \in
              {<<"model", 12, 16>>, <<"panel", 263, 3>>,
               <<"battery", 256, 4>>, <<"historical", 267, 10>>}
    /\ \A r \in wire : calls[<<r.cycle, r.op>>].requests = 1
    /\ \A id \in CallIds :
          /\ calls[id].requests <= 1
          /\ (HasAnswer(id) \/ calls[id].deliveries # <<>>) => calls[id].requests = 1
    /\ \A c \in CycleIds : calls[<<c, "panel">>].requests = 1

\* C11 witness: getProductModel and the panel and battery reads of a cycle have
\* been answered and the cycle's historical request is outstanding.
C11_Witness ==
    \E r \in wire :
        /\ r.op = "historical"
        /\ HasAnswer(<<0, "model">>)
        /\ HasAnswer(<<r.cycle, "panel">>)
        /\ HasAnswer(<<r.cycle, "battery">>)

\* the big-endian signed 16-bit value of the two bytes hi, lo
Signed16(hi, lo) ==
    IF hi * 256 + lo < 32768 THEN hi * 256 + lo ELSE hi * 256 + lo - 65536

\* the value of a byte read as sign bit (bit 7) plus magnitude (bits 0-6)
SignMagnitude(b) == IF b >= 128 THEN 0 - (b % 128) ELSE b % 128

\* the operation examined on its own has reported a struct to its caller
Decoded(op) ==
    /\ input.op = op
    /\ output # Pending
    /\ output.thrown = Null
    /\ Len(output.deliveries) = 1
    /\ output.deliveries[1].err = Null

\* the struct it reported
Struct == output.deliveries[1].result

\* C12: getBatteryState on an 8-byte block reports a struct whose
\* stateOfCharge, voltage and chargingCurrent are the big-endian signed 16-bit
\* values at byte offsets 0, 2 and 4, whose controllerTemperature comes from
\* byte 6 alone and whose batteryTemperature comes from byte 7 alone (each is
\* the byte's value when bit 7 is clear); the block 00 32 00 64 00 0A 19 0F
\* gives 50, 100, 10, 25, 15.
C12_BatteryDecode ==
    (input.op = "battery" /\ output # Pending) =>
        LET b == input.arg
            alone6 == decodeBattery(<<0, 0, 0, 0, 0, 0, b[7], 0>>)
            alone7 == decodeBattery(<<0, 0, 0, 0, 0, 0, 0, b[8]>>)
        IN  /\ Decoded("battery")
            /\ Struct.stateOfCharge = Signed16(b[1], b[2])
            /\ Struct.voltage = Signed16(b[3], b[4])
            /\ Struct.chargingCurrent = Signed16(b[5], b[6])
            /\ Struct.controllerTemperature = alone6.controllerTemperature
            /\ Struct.batteryTemperature = alone7.batteryTemperature
            /\ b[7] < 128 => Struct.controllerTemperature = b[7]
            /\ b[8] < 128 => Struct.batteryTemperature = b[8]
            /\ b = <<0, 50, 0, 100, 0, 10, 25, 15>> =>
                  Struct = [stateOfCharge |-> 50, voltage |-> 100, chargingCurrent |-> 10,
                            controllerTemperature |-> 25, batteryTemperature |-> 15]

\* C12 witness: getBatteryState has decoded the block 00 32 00 64 00 0A 19 0F.
C12_Witness ==
    /\ Decoded("battery")
    /\ input.arg = <<0, 50, 0, 100, 0, 10, 25, 15>>

\* C13: getHistoricalParameters on a 20-byte block reports a struct whose ten
\* named fields hold the ten big-endian signed 16-bit words in address order
\* 0x010B..0x0114: min battery voltage, max battery voltage, max charge
\* current, max discharge current, max charge power, max discharge power,
\* charge amp-hours, discharge amp-hours, power generation, power consumption;
\* a word 0xFFFF gives -1.
C13_HistoricalDecode ==
    (input.op = "historical" /\ output # Pending) =>
        LET b == input.arg
            word(i) == Signed16(b[2 * i + 1], b[2 * i + 2])
            fields == <<Struct.batteryVoltageMinForDay,
                        Struct.batteryVoltageMaxForDay,
                        Struct.maxChargeCurrentForDay,
                        Struct.maxDischargeCurrentForDay,
                        Struct.maxChargePowerForDay,
                        Struct.maxDischargePowerForDay,
                        Struct.chargeingAmpHoursForDay,
                        Struct.dischargingAmpHoursForDay,
                        Struct.powerGenerationForDay,
                        Struct.powerConsumptionForDay>>
        IN  /\ Decoded("historical")
            /\ \A i \in 0..9 :
                  /\ fields[i + 1] = word(i)
                  /\ (b[2 * i + 1] = 255 /\ b[2 * i + 2] = 255) => fields[i + 1] = -1

\* C13 witness: getHistoricalParameters has decoded a block whose power
\* generation word is 0xFFFF and whose power consumption word is 2.
C13_Witness ==
    /\ Decoded("historical")
    /\ SubSeq(input.arg, 17, 20) = <<255, 255, 0, 2>>
    /\ Struct.powerGenerationForDay = -1
    /\ Struct.powerConsumptionForDay = 2

\* C14: the controller and battery temperatures that getBatteryState reports
\* are bytes 6 and 7 read as sign bit plus magnitude: a byte with bit 7 set
\* gives minus the value of its bits 0-6 (0x85 gives -5), a byte with bit 7
\* clear gives the value of its bits 0-6.
C14_TemperatureSignMagnitude ==
    (input.op = "battery" /\ output # Pending) =>
        /\ Decoded("battery")
        /\ Struct.controllerTemperature = SignMagnitude(input.arg[7])
        /\ Struct.batteryTemperature = SignMagnitude(input.arg[8])

\* the configuration supplies a port identifier
HasPort(config) == config # Undefined /\ NotNull(get(config, "port"))

\* C15: constructing a RenogyRover fails if and only if the configuration has
\* no port identifier: with a port it constructs, whatever else is left out
\* (the trace flags included); without a port it throws.
C15_ConstructFailsIffNoPort ==
    (input.op = "constructor" /\ output # Pending) =>
        (output.type = "thrown" <=> ~HasPort(input.arg))

\* the sequence of character codes holds the needle at some position
Contains(chars, needle) ==
    \E i \in 0..(Len(chars) - Len(needle)) :
        SubSeq(chars, i + 1, i + Len(needle)) = needle

\* C16: once getProductModel has read a model string, the orchestrator holds
\* that string, has classified it as supported exactly when "ML2420N" occurs
\* in it at some position, and has entered polling whichever it is: the first
\* cycle is started, and the callback monitorLoop has armed the timer.
\* "     ML2420N" tests as supported, "     ML4430" does not.
C16_SubstringMatchWarningOnly ==
    /\ modelTest(String(Spaces(5) \o ML2420N)).supported
    /\ ~modelTest(String(Spaces(5) \o ML4430)).supported
    /\ FullAnswer(<<0, "model">>) =>
          /\ model = toStringAscii(AnswerOf(<<0, "model">>).data.buffer)
          /\ supported <=> Contains(model.chars, ML2420N)
          /\ Len(cycles) >= 1
          /\ calls[<<1, "panel">>].requests = 1
          /\ (variant = "callback" /\ phase = "polling") => timer

\* C16 witness: a model string without "ML2420N" was read and the first cycle
\* has handed its Composite Reading to the sink.
C16_Witness ==
    /\ FullAnswer(<<0, "model">>)
    /\ ~Contains(model.chars, ML2420N)
    /\ ~supported
    /\ phase = "polling"
    /\ EmittedBy(1) = 1

\* the call `id` has completed: the transport has answered its one request,
\* the operation has reported to its caller and nothing of it is outstanding
Completed(id) ==
    /\ calls[id].requests = 1
    /\ HasAnswer(id)
    /\ calls[id].deliveries # <<>>
    /\ ~\E r \in wire : <<r.cycle, r.op>> = id

\* C17: a cycle whose Composite Reading has been handed to the sink has
\* completed all three of its reads, each with success or failure.
C17_EmitAfterAllReads ==
    \A c \in CycleIds :
        EmittedBy(c) >= 1 => \A op \in DomainOps : Completed(<<c, op>>)

\* C17 witness: a timer-started cycle has handed over its Composite Reading
\* after its panel read succeeded and its historical read failed.
C17_Witness ==
    \E c \in CycleIds :
        /\ c >= 2
        /\ EmittedBy(c) = 1
        /\ FullAnswer(<<c, "panel">>)
        /\ FailedBy(<<c, "historical">>)

\* every timer-started cycle issues its battery read on the panel read's answer
\* and its historical read on the battery read's answer
TimerCyclesAreFull ==
    \A c \in CycleIds :
        c >= 2 =>
            /\ calls[<<c, "panel">>].requests = 1
            /\ calls[<<c, "battery">>].requests =
                  (IF HasAnswer(<<c, "panel">>) THEN 1 ELSE 0)
            /\ calls[<<c, "historical">>].requests =
                  (IF HasAnswer(<<c, "battery">>) THEN 1 ELSE 0)

\* one step of a run in which polling goes on: the orchestrator stays in
\* Polling, an armed timer stays armed, a tick starts a cycle with its panel
\* request, and the timer-started cycles are full cycles
PollingGoesOn ==
    /\ phase = "polling" => phase' = "polling"
    /\ timer => timer'
    /\ ticks' = ticks + 1 =>
          /\ Len(cycles') = Len(cycles) + 1
          /\ \E r \in wire' : r.cycle = Len(cycles') /\ r.op = "panel"
    /\ TimerCyclesAreFull'

\* C18: read failures never stop polling: no step leaves Polling or cancels
\* the timer, and whatever the reads of earlier cycles reported, a tick starts
\* a cycle that issues all three reads.
C18_FailuresNeverStopPolling == [][PollingGoesOn]_vars

OwnValue(v, id) ==
    \/ v = Null
    \/ \E k \in 1..Len(calls[id].deliveries) :
          v \in {calls[id].deliveries[k].result, calls[id].deliveries[k].err}

\* every cycle has a Composite Reading of its own, built when the cycle
\* started, whose slots hold nothing but what that cycle's own reads reported
FreshAndOwn ==
    \A c \in CycleIds :
        /\ readingsOf(c).date = c - 1
        /\ \A op \in DomainOps :
              /\ OwnValue(slotOf(readingsOf(c), op), <<c, op>>)
              /\ OwnValue(errorSlotOf(readingsOf(c), op), <<c, op>>)
        /\ EmittedBy(c) >= 1 => sink[c] = <<readingsOf(c)>>

\* what has been handed to the sink stays as it was handed over
Frozen ==
    \A c \in CycleIds :
        EmittedBy(c) >= 1 => (sink'[c] = sink[c] /\ readingsOf(c)' = readingsOf(c))

\* C20: each cycle builds a new Composite Reading, a read's result is stored
\* only in the Composite Reading of the cycle that started the read, and a
\* Composite Reading is not modified after it has been handed to the sink,
\* also when cycles overlap.
C20_FreshOwnAndFrozen == [][FreshAndOwn' /\ Frozen]_vars

\* C20 witness: the timer-started cycle, whose panel read failed, has handed
\* over its Composite Reading while the first cycle, whose panel read
\* succeeded, still has a request outstanding.
C20_Witness ==
    /\ Len(cycles) >= 2
    /\ EmittedBy(2) = 1
    /\ FailedBy(<<2, "panel">>)
    /\ FullAnswer(<<1, "panel">>)
    /\ \E r \in wire : r.cycle = 1
    /\ sink[2][1].panel = Null
    /\ readingsOf(1).panel # Null

\* the value the claim gives a configuration field: the caller's, or the default
Effective(config, key, default) ==
    IF key \in DOMAIN config THEN config[key] ELSE default

\* the object was constructed from the configuration with the effective values,
\* and connect configured the transport with them
EffectiveConfig(config, rover) ==
    /\ rover.type = "RenogyRover"
    /\ rover.port = config["port"]
    /\ rover.baudrate = Effective(config, "baudrate", Number(9600))
    /\ rover.modbusID = Effective(config, "modbusID", Number(1))
    /\ rover.modbusTimeout = Effective(config, "modbusTimeout", Number(1000))
    /\ rover.trace = Effective(config, "trace", Boolean(FALSE))
    /\ rover.traceError = Effective(config, "traceError", Boolean(FALSE))
    /\ rover.client # Null
    /\ rover.client.timeout = rover.modbusTimeout
    /\ rover.client.id = rover.modbusID
    /\ rover.client.baudRate = rover.baudrate
    /\ rover.client.port = rover.port

\* C21: for a configuration with a port, a field the caller left out has its
\* default (baud rate 9600, modbus slave id 1, response timeout 1000, trace
\* flags false), a field the caller supplied has the caller's value, and
\* connect has configured the transport with exactly the effective timeout,
\* slave id and baud rate.
C21_DefaultsAndOverrides ==
    (input.op = "connect" /\ output # Pending /\ HasPort(input.arg)) =>
        EffectiveConfig(input.arg, output)

\* C22: a read operation whose transport request has been answered has
\* invoked its caller's callback exactly once: not zero times and not twice,
\* whether the transport answered during the call or later, and whether or
\* not decoding or the caller's callback raised an exception.
C22_CallbackExactlyOnce ==
    \A id \in CallIds :
        HasAnswer(id) => Len(calls[id].deliveries) = 1

\* C23: every field of the struct that getHistoricalParameters reports holds
\* the decoded value of one of the ten registers of the block: the struct
\* has ten fields, and none is left at the placeholder 0 it was given before
\* the read.
C23_EveryFieldRegisterBacked ==
    (input.op = "historical" /\ output # Pending) =>
        LET b == input.arg
            words == {Signed16(b[2 * i + 1], b[2 * i + 2]) : i \in 0..9}
        IN  /\ Decoded("historical")
            /\ Cardinality(DOMAIN Struct) = 10
            /\ \A field \in DOMAIN Struct : Struct[field] \in words

\* C24: a read operation invoked on a device client that has no transport
\* client yet has, when the call returns, invoked its caller's callback once
\* with an error and a null result; it has thrown nothing to its caller and
\* has issued no transport request.
C24_UnconnectedReadReportsError ==
    (input.op = "read" /\ output # Pending /\ input.arg.rover.client = Null) =>
        /\ output.thrown = Null
        /\ output.requests = <<>>
        /\ Len(output.deliveries) = 1
        /\ NotNull(output.deliveries[1].err)
        /\ output.deliveries[1].result = Null

\* C24 witness: getPanelState was invoked on a device client that was
\* constructed and not connected, and has reported an error.
C24_Witness ==
    /\ input.op = "read"
    /\ input.arg.op = "panel"
    /\ input.arg.rover.client = Null
    /\ output # Pending
    /\ output.deliveries # <<>>
    /\ output.deliveries[1].err = TypeError

====
